---- MODULE Spec2Model ----
(***************************************************************************)
(* InfoHub OSINT: query validation, query classification, the per-type     *)
(* search functions (probe dispatch) and the per-user search history of    *)
(* the Express servers of the repository.                                  *)
(*                                                                         *)
(* A JavaScript string is a sequence of one-character strings.  A          *)
(* JavaScript value is a record [t, s]: t is its typeof ("string",         *)
(* "undefined", "boolean" for the value false, "number"), s the characters *)
(* of a string and <<>> otherwise.                                         *)
(***************************************************************************)
EXTENDS Integers, Sequences, FiniteSets, TLC

VARIABLES
    searchHistory,  \* part_001:13  Map userId -> list of history entries
    apiKeys,        \* part_001:14  Map apiKey -> userId
    saved,          \* per user, the number of saveSearchHistory calls so far
                    \* (stands for the entry's random id and timestamp)
    last,           \* the last call or request handled, with its outcome
    rateLimitStore, \* security.js:19  Map "ip:endpoint" -> request times
    ipBlacklist,    \* security.js:20  Set of blocked IPs
    now,            \* Date.now(), in milliseconds since the server started
    accepted        \* per "ip:endpoint", the times of the requests let
                    \* through during the last windowMs milliseconds

limiterVars == <<rateLimitStore, ipBlacklist, now, accepted>>

vars == <<searchHistory, apiKeys, saved, last, limiterVars>>

\* security.js SecurityManager constructor: empty store, empty blacklist
LimiterInit ==
    /\ rateLimitStore = << >>
    /\ ipBlacklist = {}
    /\ now = 0
    /\ accepted = << >>

----------------------------------------------------------------------------
(* JavaScript values and strings *)

Str(s) == [t |-> "string", s |-> s]
Undefined == [t |-> "undefined", s |-> <<>>]
False == [t |-> "boolean", s |-> <<>>]
Num == [t |-> "number", s |-> <<>>]

\* JavaScript truthiness of the values above (Num stands for a non-zero number)
Truthy(v) == (v.t = "string" /\ v.s # <<>>) \/ v.t = "number"

Lower == {"a","b","c","d","e","f","g","h","i","j","k","l","m",
          "n","o","p","q","r","s","t","u","v","w","x","y","z"}
Upper == {"A","B","C","D","E","F","G","H","I","J","K","L","M",
          "N","O","P","Q","R","S","T","U","V","W","X","Y","Z"}
Digit == {"0","1","2","3","4","5","6","7","8","9"}
Alnum == Lower \cup Upper \cup Digit
\* the characters the regular-expression class \s and String.trim cover
WhiteSpace == {" ", "\t", "\n"}

All(s, S) == \A i \in 1..Len(s) : s[i] \in S
Has(s, c) == \E i \in 1..Len(s) : s[i] = c

RECURSIVE Rep(_, _)
Rep(c, n) == IF n = 0 THEN <<>> ELSE <<c>> \o Rep(c, n - 1)

RECURSIVE Concat(_)
Concat(ss) == IF ss = <<>> THEN <<>> ELSE Head(ss) \o Concat(Tail(ss))

\* String.prototype.trim
RECURSIVE TrimLeft(_)
TrimLeft(s) ==
    IF s # <<>> /\ Head(s) \in WhiteSpace THEN TrimLeft(Tail(s)) ELSE s

RECURSIVE TrimRight(_)
TrimRight(s) ==
    IF s # <<>> /\ s[Len(s)] \in WhiteSpace
    THEN TrimRight(SubSeq(s, 1, Len(s) - 1)) ELSE s

Trim(s) == TrimRight(TrimLeft(s))

\* String.prototype.replace(/[...]/g, ''): drop every character of S
Strip(s, S) == SelectSeq(s, LAMBDA c : c \notin S)

\* String.prototype.split(c)
RECURSIVE Split(_, _)
Split(s, c) ==
    IF ~Has(s, c) THEN <<s>>
    ELSE LET i == CHOOSE k \in 1..Len(s) :
                      s[k] = c /\ \A j \in 1..(k - 1) : s[j] # c
         IN <<SubSeq(s, 1, i - 1)>> \o Split(SubSeq(s, i + 1, Len(s)), c)

\* the character U+0060 (grave accent), which cannot be written in a string
Grave == "GRAVE"

\* validator.escape: the eight HTML-special characters become entities
EscapeChar(c) ==
    CASE c = "&" -> <<"&","a","m","p",";">>
      [] c = "\"" -> <<"&","q","u","o","t",";">>
      [] c = "'" -> <<"&","#","x","2","7",";">>
      [] c = "<" -> <<"&","l","t",";">>
      [] c = ">" -> <<"&","g","t",";">>
      [] c = "/" -> <<"&","#","x","2","F",";">>
      [] c = "\\" -> <<"&","#","x","5","C",";">>
      [] c = Grave -> <<"&","#","9","6",";">>
      [] OTHER -> <<c>>

Escape(s) == Concat([i \in 1..Len(s) |-> EscapeChar(s[i])])

----------------------------------------------------------------------------
(* Input validation *)

MAX_QUERY_LENGTH == 100
MIN_QUERY_LENGTH == 2

\* api/index.js:58  /^[a-zA-Z0-9@._\-+\s()]+$/
SearchQueryChars == Alnum \cup {"@", ".", "_", "-", "+", "(", ")"} \cup WhiteSpace

\* part_001:60, server.js:45  /^[a-zA-Z0-9._@\-\s]+$/
InputChars == Alnum \cup {".", "_", "@", "-"} \cup WhiteSpace

\* api/index.js validateSearchQuery: {valid, error} or {valid, query}
validateSearchQuery(query) ==
    IF ~Truthy(query) \/ query.t # "string"
    THEN [valid |-> FALSE, error |-> "Query must be a string", query |-> <<>>]
    ELSE LET trimmed == Trim(query.s) IN
         IF Len(trimmed) < MIN_QUERY_LENGTH
         THEN [valid |-> FALSE, error |-> "Query too short", query |-> <<>>]
         ELSE IF Len(trimmed) > MAX_QUERY_LENGTH
         THEN [valid |-> FALSE, error |-> "Query too long", query |-> <<>>]
         ELSE IF ~All(trimmed, SearchQueryChars)
         THEN [valid |-> FALSE, error |-> "Invalid characters detected",
               query |-> <<>>]
         ELSE [valid |-> TRUE, error |-> "", query |-> trimmed]

\* api/index.js sanitizeInput
sanitizeInput(input) == Escape(Trim(input))

\* part_001 / server.js validateInput: false, or the escaped trimmed string
validateInput(input) ==
    IF ~Truthy(input) \/ input.t # "string" THEN False
    ELSE IF Len(input.s) > MAX_QUERY_LENGTH THEN False
    ELSE IF ~All(input.s, InputChars) THEN False
    ELSE Str(Escape(Trim(input.s)))

----------------------------------------------------------------------------
(* The validator library's checks, with the default options the calls use *)

TldPattern(tld) ==
    \/ Len(tld) >= 2 /\ All(tld, Lower \cup Upper)
    \/ /\ Len(tld) >= 4
       /\ tld[1] \in {"x", "X"} /\ tld[2] \in {"n", "N"}
       /\ All(SubSeq(tld, 3, Len(tld)), Alnum \cup {"-"})

FqdnPart(part) ==
    /\ Len(part) <= 63
    /\ part # <<>>
    /\ All(part, Alnum \cup {"_", "-"})
    /\ part[1] # "-" /\ part[Len(part)] # "-"
    /\ ~Has(part, "_")

\* validator.isFQDN(str): require_tld, no underscores, no numeric TLD
isFQDN(str) ==
    LET parts == Split(str, ".")
        tld == parts[Len(parts)]
    IN /\ Len(parts) >= 2
       /\ TldPattern(tld)
       /\ ~(tld # <<>> /\ All(tld, Digit))
       /\ \A i \in 1..Len(parts) : FqdnPart(parts[i])

\* the characters of an unquoted local part (emailUserUtf8Part, ASCII range)
EmailUserChars ==
    Alnum \cup {"!", "#", "$", "%", "&", "'", "*", "+", "-", "/", "=", "?",
                "^", "_", Grave, "{", "|", "}", "~"}

\* validator.isEmail(str); the quoted form of the local part ("..."@domain)
\* is answered FALSE: no validated query holds a double quote
isEmail(str) ==
    LET parts == Split(str, "@")
        domain == parts[Len(parts)]
        user == IF Len(str) = Len(domain) THEN <<>>
                ELSE SubSeq(str, 1, Len(str) - Len(domain) - 1)
        user_parts == Split(user, ".")
    IN /\ Len(str) <= 254
       /\ Len(user) <= 64 /\ Len(domain) <= 254
       /\ isFQDN(domain)
       /\ ~(user # <<>> /\ user[1] = "\"")
       /\ \A i \in 1..Len(user_parts) :
              user_parts[i] # <<>> /\ All(user_parts[i], EmailUserChars)

----------------------------------------------------------------------------
(* Query classification *)

QueryTypes == {"social", "email", "phone", "domain", "crypto"}

Base58 == (Alnum \ {"0", "O", "I", "l"})
Hex == Digit \cup {"a","b","c","d","e","f","A","B","C","D","E","F"}

\* /^[13][a-km-zA-HJ-NP-Z1-9]{25,34}$/
BtcPattern(s) ==
    /\ Len(s) >= 26 /\ Len(s) <= 35
    /\ s[1] \in {"1", "3"}
    /\ All(Tail(s), Base58)

\* /^0x[a-fA-F0-9]{40}$/
EthPattern(s) ==
    /\ Len(s) = 42
    /\ s[1] = "0" /\ s[2] = "x"
    /\ All(SubSeq(s, 3, Len(s)), Hex)

\* /^\+?[1-9]\d{1,14}$/ applied to the query without [\s\-\(\)]
PhonePattern(s) ==
    LET stripped == Strip(s, WhiteSpace \cup {"-", "(", ")"})
        d == IF stripped # <<>> /\ Head(stripped) = "+"
             THEN Tail(stripped) ELSE stripped
    IN /\ Len(d) >= 2 /\ Len(d) <= 15
       /\ d[1] \in Digit \ {"0"}
       /\ All(Tail(d), Digit)

\* api/index.js detectQueryType
detectQueryType(query) ==
    IF isEmail(query) THEN "email"
    ELSE IF isFQDN(query) THEN "domain"
    ELSE IF BtcPattern(query) \/ EthPattern(query) THEN "crypto"
    ELSE "social"

\* part_001 POST /search and POST /api/search, the branch of type === 'auto'
autoDetect(validatedQuery) ==
    IF Has(validatedQuery, "@") THEN "email"
    ELSE IF PhonePattern(validatedQuery) THEN "phone"
    ELSE IF Has(validatedQuery, ".") /\ ~Has(validatedQuery, " ") THEN "domain"
    ELSE "social"

\* server.js GET /search: the search function the query is dispatched to
routeQuery(query) ==
    IF Has(query, "@") THEN "email"
    ELSE IF Has(query, ".") /\ ~Has(query, " ") THEN "domain"
    ELSE "social"

----------------------------------------------------------------------------
(* Probes and their outcomes.                                              *)
(* A probe point is one outbound check of a search function, or one        *)
(* Math.random() draw of a simulated record.  An environment maps each     *)
(* probe point of a call to its outcome.                                   *)

MaxFaults == 1

\* one HTTPS exchange: status 200 with a JSON body, 200 with another body,
\* a 302 or a 404 response, a socket error, the timeout
HttpOutcomes == {"200json", "200html", "302", "404", "error", "timeout"}
\* the exchange that ends makeRequest (a redirect is followed, not returned)
ApiOutcomes == HttpOutcomes \ {"302"}
DnsOutcomes == {"ok", "fail"}
RandOutcomes == {"miss", "hit"}

ApiPoints == {"api:GitHub", "api:Reddit"}
DnsPoints == {"A", "MX", "TXT", "NS",
              "www", "mail", "ftp", "admin", "api", "blog", "shop", "dev"}
RandPoints == {"r1", "r2", "r3", "r4", "r5", "r6", "r7"}

Outcomes(p) ==
    IF p \in ApiPoints THEN ApiOutcomes
    ELSE IF p \in DnsPoints THEN DnsOutcomes
    ELSE IF p \in RandPoints THEN RandOutcomes
    ELSE HttpOutcomes

\* the outcome of a probe when nothing goes wrong
Nominal(p) ==
    IF p \in DnsPoints THEN "ok"
    ELSE IF p \in RandPoints THEN "miss"
    ELSE "200json"

ToSet(seq) == {seq[i] : i \in 1..Len(seq)}

\* the environments over the points of a call in which at most k probes
\* have another outcome than the nominal one
PointOutcomes(points) ==
    {x \in points \X (HttpOutcomes \cup DnsOutcomes \cup RandOutcomes) :
        x[2] \in Outcomes(x[1])}

RECURSIVE EnvsUpTo(_, _)
EnvsUpTo(points, k) ==
    IF k = 0 THEN {[p \in points |-> Nominal(p)]}
    ELSE LET E == EnvsUpTo(points, k - 1)
         IN E \cup {[e EXCEPT ![po[1]] = po[2]] :
                        e \in E, po \in PointOutcomes(points)}

\* a result record {platform, status, data, url}; data is kept only where a
\* search function computes it from the query or from a probe's answer
RD(platform, status, data) ==
    [platform |-> platform, status |-> status, data |-> data]
R(platform, status) == RD(platform, status, "")

\* what a search function hands back: the records, the probes it started
\* in the order it started them, and whether it threw instead of returning
Ret(results, probes) == [results |-> results, probes |-> probes, threw |-> FALSE]

----------------------------------------------------------------------------
(* HTTP helpers *)

\* server.js / part_001 checkURLExists: the resolved boolean
checkURLExists(o) == o \in {"200json", "200html", "302"}

\* osint-modules.js OSINTEngine.checkProfileExists
checkProfileExists(o) == o \in {"200json", "200html"}

\* server.js / part_001 makeRequest: the kind of value it resolves to
makeRequest(o) ==
    CASE o = "200json" -> "json"
      [] o = "200html" -> "html"
      [] OTHER -> "error"

\* server.js / part_001 searchGitHub
searchGitHub(o) ==
    IF makeRequest(o) = "error" THEN R("GitHub", "error")
    ELSE R("GitHub", "success")

\* api/index.js makeRequest: no status check, parsed JSON or {html, statusCode}
apiMakeRequest(o) ==
    CASE o \in {"error", "timeout"} -> "error"
      [] o = "200json" -> "profile"
      [] OTHER -> "other"

\* api/index.js searchGitHub: error unless the body is a profile (has login)
apiSearchGitHub(o) ==
    IF apiMakeRequest(o) = "profile" THEN R("GitHub", "success")
    ELSE R("GitHub", "error")

----------------------------------------------------------------------------
(* Social searches *)

Hit(env, r, onHit, onMiss) == IF env[r] = "hit" THEN onHit ELSE onMiss

\* server.js / part_001 searchDeepWeb: seven simulated records
searchDeepWeb(env) ==
    << R("Dark Web Forums", Hit(env, "r1", "warning", "success")),
       R("Data Breach Scanner", Hit(env, "r2", "error", "success")),
       R("Crypto Wallet Tracker", Hit(env, "r3", "success", "warning")),
       R("Credential Leaks", Hit(env, "r4", "error", "success")),
       R("Phone Intelligence", Hit(env, "r5", "success", "warning")),
       R("Email Pattern Analysis", Hit(env, "r6", "success", "warning")),
       R("Facial Recognition DB", Hit(env, "r7", "warning", "success")) >>

\* server.js / part_001 searchSocialMedia: the platforms array
SocialPlatforms ==
    <<"GitHub", "Twitter", "Instagram", "LinkedIn", "Reddit", "YouTube",
      "TikTok", "Facebook">>

ProbeOf(name) == IF name = "GitHub" THEN "api:GitHub" ELSE name

searchSocialMediaPoints ==
    {ProbeOf(SocialPlatforms[i]) : i \in 1..Len(SocialPlatforms)} \cup RandPoints

\* server.js / part_001 searchSocialMedia
searchSocialMedia(username, env) ==
    LET platformRecord(name) ==
            IF name = "GitHub" THEN searchGitHub(env["api:GitHub"])
            ELSE R(name, IF checkURLExists(env[name]) THEN "success" ELSE "error")
    IN Ret(<<R("AI Profile Analysis", "success")>>
             \o [i \in 1..Len(SocialPlatforms) |-> platformRecord(SocialPlatforms[i])]
             \o searchDeepWeb(env),
           [i \in 1..Len(SocialPlatforms) |-> ProbeOf(SocialPlatforms[i])])

\* api/index.js searchSocialMedia: one API call, four simulated platforms
ApiSimulatedPlatforms == <<"Instagram", "LinkedIn", "YouTube", "Twitch">>

apiSearchSocialMediaPoints == {"api:GitHub", "r1", "r2", "r3", "r4"}

apiSearchSocialMedia(username, env) ==
    LET rand == <<"r1", "r2", "r3", "r4">>
    IN Ret(<<apiSearchGitHub(env["api:GitHub"])>>
             \o [i \in 1..Len(ApiSimulatedPlatforms) |->
                    R(ApiSimulatedPlatforms[i], Hit(env, rand[i], "success", "error"))],
           <<"api:GitHub">>)

\* part_002 searchSocialMedia: the otherPlatforms array
OtherPlatforms ==
    <<"Twitter/X", "Instagram", "LinkedIn", "Facebook", "YouTube", "TikTok">>

pagesSearchSocialMediaPoints == {"api:GitHub", "api:Reddit"} \cup ToSet(OtherPlatforms)

\* part_002 searchSocialMedia: two API calls, then one existence check per
\* other platform; a profile that is not found there is a warning
pagesSearchSocialMedia(query, env) ==
    LET apiRecord(name, point) ==
            R(name, IF makeRequest(env[point]) = "json" THEN "success" ELSE "error")
        otherRecord(name) ==
            R(name, IF checkURLExists(env[name]) THEN "success" ELSE "warning")
    IN Ret(<<apiRecord("GitHub", "api:GitHub"), apiRecord("Reddit", "api:Reddit")>>
             \o [i \in 1..Len(OtherPlatforms) |-> otherRecord(OtherPlatforms[i])],
           <<"api:GitHub", "api:Reddit">> \o OtherPlatforms)

\* osint-modules.js OSINTEngine.socialMediaScan: the platforms array
ScanPlatforms ==
    <<"GitHub", "Twitter", "Instagram", "LinkedIn", "Facebook", "YouTube",
      "TikTok", "Reddit">>

socialMediaScanPoints == {ProbeOf(ScanPlatforms[i]) : i \in 1..Len(ScanPlatforms)}

\* osint-modules.js OSINTEngine.makeHTTPRequest: resolves on 200, else rejects
makeHTTPRequest(o) == IF o \in {"200json", "200html"} THEN "data" ELSE "reject"

\* osint-modules.js OSINTEngine.socialMediaScan: a record only for a profile
\* that was found and for a probe that threw
socialMediaScan(username, env) ==
    LET scanRecord(name) ==
            IF name = "GitHub"
            THEN IF makeHTTPRequest(env["api:GitHub"]) = "reject"
                 THEN <<R(name, "error")>> ELSE <<R(name, "found")>>
            ELSE IF checkProfileExists(env[name])
                 THEN <<R(name, "found")>> ELSE <<>>
    IN Ret(Concat([i \in 1..Len(ScanPlatforms) |-> scanRecord(ScanPlatforms[i])]),
           [i \in 1..Len(ScanPlatforms) |-> ProbeOf(ScanPlatforms[i])])

\* osint-sources.js this.sources.social
SourcesSocial ==
    <<"GitHub", "Twitter", "Instagram", "LinkedIn", "Reddit", "YouTube",
      "TikTok", "Twitch", "Pinterest", "Snapchat", "Discord", "Telegram",
      "Facebook", "VKontakte", "Tumblr">>

checkSocialMediaPoints ==
    ({ProbeOf(SourcesSocial[i]) : i \in 1..Len(SourcesSocial)} \ {"Discord"})
        \cup {"r1", "r2"}

\* osint-sources.js OSINTSources.checkAPI
checkAPI(o, platform) ==
    IF o \in {"200json", "200html"} THEN R(platform, "success")
    ELSE R(platform, "error")

\* osint-sources.js OSINTSources.checkURL
checkURL(o, platform) ==
    IF o \in {"200json", "200html", "302"} THEN R(platform, "success")
    ELSE R(platform, "error")

\* osint-sources.js OSINTSources.checkSocialMedia
checkSocialMedia(username, env) ==
    LET sourceRecord(name) ==
            IF name = "GitHub" THEN checkAPI(env["api:GitHub"], name)
            ELSE IF name = "Discord" THEN R("Discord", "info")
            ELSE checkURL(env[name], name)
        probed == SelectSeq(SourcesSocial, LAMBDA n : n # "Discord")
    IN Ret(<<R("AI Profile Analysis", "success")>>
             \o [i \in 1..Len(SourcesSocial) |-> sourceRecord(SourcesSocial[i])]
             \o <<R("Dark Web Forums", Hit(env, "r1", "warning", "success")),
                  R("Pastebin/Leaks", Hit(env, "r2", "warning", "success"))>>,
           [i \in 1..Len(probed) |-> ProbeOf(probed[i])])

----------------------------------------------------------------------------
(* Email, phone, domain and crypto searches *)

searchEmailPoints == {"MX", "r1", "r2", "r3", "r4"}

\* part_001 searchEmail
searchEmail(email, env) ==
    IF ~isEmail(email) THEN Ret(<<R("Email Validation", "error")>>, <<>>)
    ELSE Ret(<< R("Email Intelligence", "success"),
                IF env["MX"] = "ok"
                THEN RD("Domain MX Records", "success", "exchanges")
                ELSE R("Domain Validation", "error"),
                R("HaveIBeenPwned", Hit(env, "r1", "error", "success")),
                R("Dark Web Monitor", Hit(env, "r2", "warning", "success")),
                R("Social Media Links", Hit(env, "r3", "success", "warning")),
                R("Spam Database", Hit(env, "r4", "error", "success")) >>,
             <<"MX">>)

\* server.js searchEmail
serverSearchEmail(email, env) ==
    IF ~isEmail(email) THEN Ret(<<R("Email Validation", "error")>>, <<>>)
    ELSE Ret(<< R("Email Intelligence", "success"),
                IF env["MX"] = "ok"
                THEN RD("Domain MX Records", "success", "exchanges")
                ELSE R("Domain Validation", "error"),
                R("HaveIBeenPwned", Hit(env, "r1", "error", "success")),
                R("Dark Web Monitoring", Hit(env, "r2", "warning", "success")),
                R("Social Media Linking", Hit(env, "r3", "success", "warning")),
                R("Spam Database Check", Hit(env, "r4", "warning", "success")) >>,
             <<"MX">>)

\* api/index.js searchEmail: no lookup
apiSearchEmail(email) ==
    IF ~isEmail(email) THEN Ret(<<R("Email Validation", "error")>>, <<>>)
    ELSE Ret(<<R("Email Intelligence", "success")>>, <<>>)

StartsWith(s, prefix) ==
    Len(s) >= Len(prefix) /\ SubSeq(s, 1, Len(prefix)) = prefix

searchPhonePoints == {"r1", "r2"}

\* part_001 searchPhone
searchPhone(phone, env) ==
    IF ~PhonePattern(phone) THEN Ret(<<R("Phone Validation", "error")>>, <<>>)
    ELSE LET countryCode ==
                 IF StartsWith(phone, <<"+", "5", "5">>) THEN "Brazil"
                 ELSE IF StartsWith(phone, <<"+", "1">>) THEN "USA"
                 ELSE "Unknown"
         IN Ret(<< RD("Country Detection", "success", countryCode),
                   R("Carrier Lookup", "success"),
                   R("TrueCaller DB", Hit(env, "r1", "success", "warning")),
                   R("Spam Reports", Hit(env, "r2", "error", "success")) >>,
                <<>>)

searchDomainPoints == {"A", "MX", "r1", "r2"}

\* searchDomain without its try block: a failed lookup is thrown to the caller
searchDomainUncaught(domain, env) ==
    IF env["A"] = "fail"
    THEN [results |-> <<>>, probes |-> <<"A">>, threw |-> TRUE]
    ELSE IF env["MX"] = "fail"
    THEN [results |-> <<>>, probes |-> <<"A", "MX">>, threw |-> TRUE]
    ELSE Ret(<< R("DNS A Records", "success"),
                R("MX Records", "success"),
                R("Subdomain Enum", Hit(env, "r1", "success", "warning")),
                R("Port Scan", Hit(env, "r2", "warning", "success")) >>,
             <<"A", "MX">>)

\* part_001 searchDomain: one try block around both lookups
searchDomain(domain, env) ==
    IF env["A"] = "fail"
    THEN Ret(<<R("Domain Analysis", "error")>>, <<"A">>)
    ELSE IF env["MX"] = "fail"
    THEN Ret(<<R("DNS A Records", "success"), R("Domain Analysis", "error")>>,
             <<"A", "MX">>)
    ELSE Ret(<< R("DNS A Records", "success"),
                R("MX Records", "success"),
                R("Subdomain Enum", Hit(env, "r1", "success", "warning")),
                R("Port Scan", Hit(env, "r2", "warning", "success")) >>,
             <<"A", "MX">>)

\* server.js searchDomain: the subdomains array
ServerSubdomains == <<"www", "mail", "ftp", "admin", "api", "blog", "shop", "dev">>

serverSearchDomainPoints == {"A", "TXT"} \cup ToSet(ServerSubdomains)

\* server.js searchDomain: a try block per lookup
serverSearchDomain(domain, env) ==
    LET foundSubdomains == SelectSeq(ServerSubdomains, LAMBDA s : env[s] = "ok")
    IN Ret(<< R("DNS A Records", IF env["A"] = "ok" THEN "success" ELSE "error"),
              R("DNS TXT Records", IF env["TXT"] = "ok" THEN "success" ELSE "warning"),
              R("Subdomain Enumeration",
                IF Len(foundSubdomains) > 0 THEN "success" ELSE "warning") >>,
           <<"A", "TXT">> \o ServerSubdomains)

\* api/index.js searchDomain: no lookup
apiSearchDomain(domain) ==
    IF ~isFQDN(domain) THEN Ret(<<R("Domain Validation", "error")>>, <<>>)
    ELSE Ret(<<R("DNS Analysis", "success")>>, <<>>)

\* api/index.js searchCrypto (the handler wraps the record in a list)
searchCrypto(address) ==
    IF ~BtcPattern(address) /\ ~EthPattern(address)
    THEN R("Crypto", "error") ELSE R("Crypto Analysis", "success")

\* osint-modules.js OSINTEngine.getCountryFromPhone
getCountryFromPhone(phone) ==
    IF StartsWith(phone, <<"5", "5">>) THEN "Brazil"
    ELSE IF StartsWith(phone, <<"1">>) THEN "USA/Canada"
    ELSE "Unknown"

\* osint-modules.js OSINTEngine.phoneAnalysis: the number without its
\* non-digits, and its country
phoneAnalysis(phone) ==
    LET cleaned == SelectSeq(phone, LAMBDA c : c \in Digit)
    IN [number |-> cleaned, country |-> getCountryFromPhone(cleaned)]

\* the resolve* functions of Node's dns module, as <<"resolve", suffix>>
DnsModuleMethods ==
    {<<"resolve", x>> : x \in {"", "4", "6", "Any", "Caa", "Cname", "Mx", "Naptr",
                               "Ns", "Ptr", "Soa", "Srv", "Txt"}}

getDNSRecordsPoints == {"A", "MX", "TXT", "NS"}

\* osint-modules.js OSINTEngine.getDNSRecord: dns[`resolve${type}`], rejected
\* when the module has no such function or the lookup fails
getDNSRecord(type, env) ==
    IF <<"resolve", type>> \in DnsModuleMethods
    THEN [started |-> TRUE, ok |-> env[type] = "ok"]
    ELSE [started |-> FALSE, ok |-> FALSE]

\* osint-modules.js OSINTEngine.getDNSRecords: one try block around the four
\* lookups; the records object holds the types resolved before the first
\* rejection
RECURSIVE getDNSRecordsFrom(_, _)
getDNSRecordsFrom(types, env) ==
    IF types = <<>> THEN Ret(<<>>, <<>>)
    ELSE LET r == getDNSRecord(Head(types), env)
             probe == IF r.started THEN <<Head(types)>> ELSE <<>>
         IN IF ~r.ok THEN Ret(<<>>, probe)
            ELSE LET rest == getDNSRecordsFrom(Tail(types), env)
                 IN Ret(<<R(Head(types), "success")>> \o rest.results,
                        probe \o rest.probes)

getDNSRecords(domain, env) == getDNSRecordsFrom(<<"A", "MX", "TXT", "NS">>, env)

----------------------------------------------------------------------------
(* Search history and API keys (part_001) *)

HISTORY_CAP == 50

UserIds == {"u1", "u2"}
ApiKeyNames == {"ib_1"}

\* the optional `type` field of a request body
TypeAbsent == [given |-> FALSE, v |-> ""]
TypeOf(v) == [given |-> TRUE, v |-> v]

HistoryOf(h, userId) == IF userId \in DOMAIN h THEN h[userId] ELSE <<>>

\* saveSearchHistory without the splice: the list is never cut
saveSearchHistoryUncapped(h, userId, entry) ==
    [u \in DOMAIN h \cup {userId} |->
        IF u = userId THEN <<entry>> \o HistoryOf(h, userId) ELSE h[u]]

\* saveSearchHistory with push in place of unshift: at the cap the splice
\* cuts the entry just added
saveSearchHistoryPush(h, userId, entry) ==
    LET pushed == HistoryOf(h, userId) \o <<entry>>
        kept == IF Len(pushed) > 50 THEN SubSeq(pushed, 1, 50) ELSE pushed
    IN [u \in DOMAIN h \cup {userId} |-> IF u = userId THEN kept ELSE h[u]]

\* saveSearchHistory with one list for all users in place of the Map entry
\* of userId
saveSearchHistoryShared(h, userId, entry) ==
    LET unshifted == <<entry>> \o HistoryOf(h, userId)
        kept == IF Len(unshifted) > 50 THEN SubSeq(unshifted, 1, 50) ELSE unshifted
    IN [u \in DOMAIN h \cup {userId} |-> kept]

\* part_001 saveSearchHistory: unshift the entry, then splice(50)
saveSearchHistory(h, userId, entry) ==
    LET unshifted == <<entry>> \o HistoryOf(h, userId)
        kept == IF Len(unshifted) > HISTORY_CAP
                THEN SubSeq(unshifted, 1, HISTORY_CAP) ELSE unshifted
    IN [u \in DOMAIN h \cup {userId} |-> IF u = userId THEN kept ELSE h[u]]

\* the entry saveSearchHistory builds; seq stands for its id and timestamp
HistoryEntry(userId, query, type, results) ==
    [seq |-> saved[userId] + 1, query |-> query, type |-> type,
     results |-> Len(results)]

\* the probe environments a request handler is run under: every probe of
\* the search answers nominally, or none does (the network is down)
Down(p) ==
    IF p \in DnsPoints THEN "fail"
    ELSE IF p \in RandPoints THEN "hit"
    ELSE "error"

\* every probe of a call ends in outcome o where o is one of its outcomes
DownWith(p, o) == IF o \in Outcomes(p) THEN o ELSE Down(p)

HandlerEnvs(points) ==
    {[p \in points |-> Nominal(p)]}
        \cup {[p \in points |-> DownWith(p, o)] : o \in {"error", "timeout", "404"}}

NoRet == Ret(<<>>, <<>>)

Response(op, query, type, userId, key, status, rtype, ret, wrote) ==
    [op |-> op, query |-> query, type |-> type, userId |-> userId, key |-> key,
     status |-> status, rtype |-> rtype, results |-> ret.results,
     probes |-> ret.probes, wrote |-> wrote]

\* part_001 POST /search and POST /api/search: the switch on detectedType
SearchPoints(detectedType) ==
    CASE detectedType = "email" -> searchEmailPoints
      [] detectedType = "phone" -> searchPhonePoints
      [] detectedType = "domain" -> searchDomainPoints
      [] OTHER -> searchSocialMediaPoints

Dispatch(detectedType, validatedQuery, env) ==
    CASE detectedType = "email" -> searchEmail(validatedQuery, env)
      [] detectedType = "phone" -> searchPhone(validatedQuery, env)
      [] detectedType = "domain" -> searchDomain(validatedQuery, env)
      [] OTHER -> searchSocialMedia(validatedQuery, env)

\* part_001 POST /search and POST /api/search: detectedType
DetectedType(type, validatedQuery) ==
    LET t == IF type.given THEN type.v ELSE "auto"
    IN IF t = "auto" THEN autoDetect(validatedQuery) ELSE t

\* part_001 app.post('/search'), behind searchLimiter
PostSearch(query, type, userId) ==
    LET validatedQuery == validateInput(query)
        op == "POST /search"
    IN IF ~Truthy(query) \/ ~Truthy(validatedQuery)
       THEN /\ last' = Response(op, query, type, userId, "", 400, TypeAbsent,
                                NoRet, FALSE)
            /\ UNCHANGED <<searchHistory, apiKeys, saved, limiterVars>>
       ELSE LET detectedType == DetectedType(type, validatedQuery.s)
            IN \E env \in HandlerEnvs(SearchPoints(detectedType)) :
                 LET ret == Dispatch(detectedType, validatedQuery.s, env)
                 IN IF ret.threw
                    THEN /\ last' = Response(op, query, type, userId, "", 500,
                                             TypeAbsent, NoRet, FALSE)
                         /\ UNCHANGED <<searchHistory, apiKeys, saved, limiterVars>>
                    ELSE IF userId # ""
                    THEN /\ searchHistory' =
                                saveSearchHistory(searchHistory, userId,
                                    HistoryEntry(userId, validatedQuery.s,
                                                 detectedType, ret.results))
                         /\ saved' = [saved EXCEPT ![userId] = @ + 1]
                         /\ last' = Response(op, query, type, userId, "", 200,
                                             TypeOf(detectedType), ret, TRUE)
                         /\ UNCHANGED <<apiKeys, limiterVars>>
                    ELSE /\ last' = Response(op, query, type, userId, "", 200,
                                             TypeOf(detectedType), ret, FALSE)
                         /\ UNCHANGED <<searchHistory, apiKeys, saved, limiterVars>>

\* part_001 authenticateAPI: the userId of the key, "" when the request is
\* refused with 401
authenticateAPI(key) == IF key # "" /\ key \in DOMAIN apiKeys THEN apiKeys[key] ELSE ""

\* part_001 app.post('/api/search'), behind authenticateAPI
ApiSearch(key, query, type) ==
    LET userId == authenticateAPI(key)
        validatedQuery == validateInput(query)
        op == "POST /api/search"
    IN IF userId = ""
       THEN /\ last' = Response(op, query, type, "", key, 401, TypeAbsent,
                                NoRet, FALSE)
            /\ UNCHANGED <<searchHistory, apiKeys, saved, limiterVars>>
       ELSE IF ~Truthy(query) \/ ~Truthy(validatedQuery)
       THEN /\ last' = Response(op, query, type, userId, key, 400, TypeAbsent,
                                NoRet, FALSE)
            /\ UNCHANGED <<searchHistory, apiKeys, saved, limiterVars>>
       ELSE LET detectedType == DetectedType(type, validatedQuery.s)
            IN \E env \in HandlerEnvs(SearchPoints(detectedType)) :
                 LET ret == Dispatch(detectedType, validatedQuery.s, env)
                 IN IF ret.threw
                    THEN /\ last' = Response(op, query, type, userId, key, 500,
                                             TypeAbsent, NoRet, FALSE)
                         /\ UNCHANGED <<searchHistory, apiKeys, saved, limiterVars>>
                    ELSE /\ searchHistory' =
                                saveSearchHistory(searchHistory, userId,
                                    HistoryEntry(userId, validatedQuery.s,
                                                 detectedType, ret.results))
                         /\ saved' = [saved EXCEPT ![userId] = @ + 1]
                         /\ last' = Response(op, query, type, userId, key, 200,
                                             TypeOf(detectedType), ret, TRUE)
                         /\ UNCHANGED <<apiKeys, limiterVars>>

\* part_001 app.post('/api/generate-key'); the fresh key stands for
\* generateApiKey()'s random one
GenerateKey(userId) ==
    IF userId = ""
    THEN /\ last' = Response("POST /api/generate-key", Undefined, TypeAbsent,
                             userId, "", 400, TypeAbsent, NoRet, FALSE)
         /\ UNCHANGED <<searchHistory, apiKeys, saved, limiterVars>>
    ELSE \E apiKey \in ApiKeyNames \ DOMAIN apiKeys :
           /\ apiKeys' = [k \in DOMAIN apiKeys \cup {apiKey} |->
                              IF k = apiKey THEN userId ELSE apiKeys[k]]
           /\ last' = Response("POST /api/generate-key", Undefined, TypeAbsent,
                               userId, apiKey, 200, TypeAbsent, NoRet, FALSE)
           /\ UNCHANGED <<searchHistory, saved, limiterVars>>

\* part_001 app.get('/api/history/:userId'): no authenticateAPI in the route
GetHistory(userId) ==
    /\ last' = [Response("GET /api/history", Undefined, TypeAbsent, userId, "",
                         200, TypeAbsent, NoRet, FALSE)
                   EXCEPT !.results = HistoryOf(searchHistory, userId)]
    /\ UNCHANGED <<searchHistory, apiKeys, saved, limiterVars>>

----------------------------------------------------------------------------
(* api/index.js and server.js request handlers *)

ApiSearchPoints(detectedType) ==
    IF detectedType \in {"email", "domain", "crypto"} THEN {}
    ELSE apiSearchSocialMediaPoints

ApiDispatch(detectedType, sanitizedQuery, env) ==
    CASE detectedType = "email" -> apiSearchEmail(sanitizedQuery)
      [] detectedType = "domain" -> apiSearchDomain(sanitizedQuery)
      [] detectedType = "crypto" -> Ret(<<searchCrypto(sanitizedQuery)>>, <<>>)
      [] OTHER -> apiSearchSocialMedia(sanitizedQuery, env)

\* api/index.js app.post('/search'), behind searchLimiter
ApiIndexPostSearch(query, type) ==
    LET validation == validateSearchQuery(query)
        op == "api/index POST /search"
    IN IF ~validation.valid
       THEN /\ last' = Response(op, query, type, "", "", 400, TypeAbsent,
                                NoRet, FALSE)
            /\ UNCHANGED <<searchHistory, apiKeys, saved, limiterVars>>
       ELSE LET sanitizedQuery == sanitizeInput(validation.query)
                detectedType == IF type.given /\ type.v # "" THEN type.v
                                ELSE detectQueryType(sanitizedQuery)
            IN \E env \in HandlerEnvs(ApiSearchPoints(detectedType)) :
                 LET ret == ApiDispatch(detectedType, sanitizedQuery, env)
                 IN /\ last' = IF ret.threw
                                THEN Response(op, query, type, "", "", 500,
                                              TypeAbsent, NoRet, FALSE)
                                ELSE Response(op, query, type, "", "", 200,
                                              TypeOf(detectedType), ret, FALSE)
                    /\ UNCHANGED <<searchHistory, apiKeys, saved, limiterVars>>

ServerSearchPoints(route) ==
    CASE route = "email" -> searchEmailPoints
      [] route = "domain" -> serverSearchDomainPoints
      [] OTHER -> searchSocialMediaPoints

\* server.js app.get('/search'), behind searchLimiter; the HTML page it sends
\* carries no type field. The handler has no try block: were a search to
\* throw, no response would be sent (status 0)
ServerGetSearch(q) ==
    LET query == validateInput(q)
        op == "GET /search"
    IN IF ~Truthy(query)
       THEN /\ last' = Response(op, q, TypeAbsent, "", "", 400, TypeAbsent,
                                NoRet, FALSE)
            /\ UNCHANGED <<searchHistory, apiKeys, saved, limiterVars>>
       ELSE LET route == routeQuery(query.s)
            IN \E env \in HandlerEnvs(ServerSearchPoints(route)) :
                 LET ret == CASE route = "email" -> serverSearchEmail(query.s, env)
                              [] route = "domain" -> serverSearchDomain(query.s, env)
                              [] OTHER -> searchSocialMedia(query.s, env)
                 IN /\ last' = IF ret.threw
                                THEN Response(op, q, TypeAbsent, "", "", 0,
                                              TypeAbsent, NoRet, FALSE)
                                ELSE Response(op, q, TypeAbsent, "", "", 200,
                                              TypeAbsent, ret, FALSE)
                    /\ UNCHANGED <<searchHistory, apiKeys, saved, limiterVars>>

----------------------------------------------------------------------------
(* Requests *)

MaxSaves == 1

S_john_example == <<"j","o","h","n","@","e","x","a","m","p","l","e",".","c","o","m">>
S_example_com == <<"e","x","a","m","p","l","e",".","c","o","m">>
S_phone == <<"+","1","5","5","5","1","2","3","4","5","6","7">>
S_btc == <<"1","A","1","z","P","1","e","P","5","Q","G","e","f","i","2","D","M",
           "P","T","f","T","L","5","S","L","m","v","7","D","i","v","f","N","a">>
S_johndoe == <<"j","o","h","n","d","o","e">>
S_script == <<"<","s","c","r","i","p","t",">">>
S_john_at == <<"j","o","h","n","@">>

\* the request bodies of the model: the query ...
SampleQueries ==
    { Str(S_john_example), Str(S_example_com), Str(S_phone), Str(S_btc),
      Str(S_johndoe), Str(S_script), Str(S_john_at),
      Str(Rep("a", MAX_QUERY_LENGTH + 1)),
      Str(Rep("a", MAX_QUERY_LENGTH) \o <<" ">>), Undefined }

\* ... and the type field
SampleTypes == {TypeAbsent, TypeOf("auto"), TypeOf("foo")}

Init ==
    /\ searchHistory = [u \in {} |-> <<>>]
    /\ apiKeys = [k \in {} |-> ""]
    /\ saved = [u \in UserIds |-> 0]
    /\ LimiterInit
    /\ last = [op |-> "none"]

\* a search that would save is taken only while the user has saved fewer
\* than MaxSaves searches
CanSave(userId, query) ==
    (userId \in UserIds /\ Truthy(validateInput(query))) => saved[userId] < MaxSaves

Next ==
    \/ \E userId \in {"", "u1"} : GenerateKey(userId)
    \/ \E key \in ApiKeyNames \cup {""}, query \in SampleQueries, type \in SampleTypes :
         CanSave(authenticateAPI(key), query) /\ ApiSearch(key, query, type)
    \/ \E query \in SampleQueries, type \in SampleTypes, userId \in {"", "u1"} :
         CanSave(userId, query) /\ PostSearch(query, type, userId)
    \/ \E userId \in {"u1"} : GetHistory(userId)
    \/ \E query \in SampleQueries, type \in SampleTypes : ApiIndexPostSearch(query, type)
    \/ \E q \in SampleQueries : ServerGetSearch(q)

Spec == Init /\ [][Next]_vars

----------------------------------------------------------------------------
(* The history at its cap: the part_001 server under one query, so that a  *)
(* user's history runs past HISTORY_CAP entries                            *)

MaxExtraSaves == 2

NextHistory ==
    \/ \E userId \in UserIds : GenerateKey(userId)
    \/ \E key \in ApiKeyNames :
         /\ authenticateAPI(key) # ""
         /\ saved[authenticateAPI(key)] < HISTORY_CAP + MaxExtraSaves
         /\ ApiSearch(key, Str(S_johndoe), TypeAbsent)
    \/ \E userId \in UserIds :
         /\ saved[userId] < HISTORY_CAP + MaxExtraSaves
         /\ PostSearch(Str(S_johndoe), TypeAbsent, userId)

SpecHistory == Init /\ [][NextHistory]_vars

----------------------------------------------------------------------------
(* The part_001 server under two users: accepted and rejected searches of  *)
(* each, with and without a userId or a key                                *)

UserQueries == {Str(S_johndoe), Str(S_example_com), Str(S_script), Undefined}

NextUsers ==
    \/ \E userId \in UserIds \cup {""} : GenerateKey(userId)
    \/ \E key \in ApiKeyNames \cup {""}, query \in UserQueries :
         CanSave(authenticateAPI(key), query) /\ ApiSearch(key, query, TypeAbsent)
    \/ \E query \in UserQueries, userId \in UserIds \cup {""} :
         CanSave(userId, query) /\ PostSearch(query, TypeAbsent, userId)
    \/ \E userId \in UserIds : GetHistory(userId)

SpecUsers == Init /\ [][NextUsers]_vars

----------------------------------------------------------------------------
(* The validators and classifiers applied to generated inputs *)

MaxTokens == 5

Tokens == {<<"a", "b">>, <<"@">>, <<".">>, <<"1">>, <<"+">>, <<" ">>}

RECURSIVE GenStrings(_)
GenStrings(n) ==
    IF n = 0 THEN {<<>>}
    ELSE LET S == GenStrings(n - 1)
         IN S \cup {s \o tk : s \in S, tk \in Tokens}

S_tab == <<"j","o","h","n","\t","d","o","e">>
S_paren == <<"(","5","5","5",")","1","2","3">>
S_brazil == <<"5","5"," ","1","1"," ","9","8","7","6","5","-","4","3","2","1">>

Inputs ==
    {Str(s) : s \in GenStrings(MaxTokens)} \cup SampleQueries
        \cup {Num, Str(S_tab), Str(S_paren), Str(S_brazil),
              Str(Rep("a", MAX_QUERY_LENGTH))}

InitValidate ==
    /\ searchHistory = [u \in {} |-> <<>>]
    /\ apiKeys = [k \in {} |-> ""]
    /\ saved = [u \in UserIds |-> 0]
    /\ LimiterInit
    /\ last \in {[op |-> "input", arg |-> v] : v \in Inputs}

Returned(op, ret) ==
    /\ last.op = "input"
    /\ last' = [op |-> op, arg |-> last.arg, ret |-> ret]
    /\ UNCHANGED <<searchHistory, apiKeys, saved, limiterVars>>

ValidateSearchQueryCall == Returned("validateSearchQuery", validateSearchQuery(last.arg))

ValidateInputCall == Returned("validateInput", validateInput(last.arg))

\* api/index.js POST /search: the type detected for a validated query
DetectQueryTypeCall ==
    /\ last.op = "input"
    /\ validateSearchQuery(last.arg).valid
    /\ Returned("detectQueryType",
                detectQueryType(sanitizeInput(validateSearchQuery(last.arg).query)))

\* part_001 POST /search: the type detected for a validated query
AutoDetectCall ==
    /\ last.op = "input"
    /\ Truthy(validateInput(last.arg))
    /\ Returned("autoDetect", autoDetect(validateInput(last.arg).s))

\* server.js GET /search: the search a validated query is routed to
RouteQueryCall ==
    /\ last.op = "input"
    /\ Truthy(validateInput(last.arg))
    /\ Returned("routeQuery", routeQuery(validateInput(last.arg).s))

\* part_001 POST /search: the phone search of a validated query that the
\* auto-detection takes for a phone number
SearchPhoneCall ==
    /\ last.op = "input"
    /\ Truthy(validateInput(last.arg))
    /\ autoDetect(validateInput(last.arg).s) = "phone"
    /\ \E env \in HandlerEnvs(searchPhonePoints) :
         Returned("searchPhone", searchPhone(validateInput(last.arg).s, env))

\* osint-modules.js OSINTEngine.phoneAnalysis of a validated query
PhoneAnalysisCall ==
    /\ last.op = "input"
    /\ Truthy(validateInput(last.arg))
    /\ PhonePattern(validateInput(last.arg).s)
    /\ Returned("phoneAnalysis", phoneAnalysis(validateInput(last.arg).s))

NextValidate ==
    \/ ValidateSearchQueryCall
    \/ ValidateInputCall
    \/ DetectQueryTypeCall
    \/ AutoDetectCall
    \/ RouteQueryCall
    \/ SearchPhoneCall
    \/ PhoneAnalysisCall

SpecValidate == InitValidate /\ [][NextValidate]_vars

----------------------------------------------------------------------------
(* The search functions called directly, twice with the same argument,
   each run under its own probe outcomes *)

\* the search functions and the argument each is called with
SearchCalls ==
    { <<"server searchSocialMedia", S_johndoe>>,
      <<"socialMediaScan", S_johndoe>>,
      <<"checkSocialMedia", S_johndoe>>,
      <<"searchEmail", S_john_example>>,
      <<"server searchEmail", S_john_example>>,
      <<"searchDomain", S_example_com>>,
      <<"server searchDomain", S_example_com>>,
      <<"getDNSRecords", S_example_com>>,
      <<"pages searchSocialMedia", S_johndoe>>,
      <<"searchEmail", S_john_at>>,
      <<"server searchEmail", S_john_at>>,
      <<"api searchEmail", S_john_example>>,
      <<"api searchEmail", S_john_at>> }

PointsOf(fn) ==
    CASE fn = "server searchSocialMedia" -> searchSocialMediaPoints
      [] fn = "socialMediaScan" -> socialMediaScanPoints
      [] fn = "checkSocialMedia" -> checkSocialMediaPoints
      [] fn = "searchEmail" -> searchEmailPoints
      [] fn = "server searchEmail" -> searchEmailPoints
      [] fn = "searchDomain" -> searchDomainPoints
      [] fn = "server searchDomain" -> serverSearchDomainPoints
      [] fn = "getDNSRecords" -> getDNSRecordsPoints
      [] fn = "pages searchSocialMedia" -> pagesSearchSocialMediaPoints
      [] fn = "api searchEmail" -> {}

InitDispatch ==
    /\ searchHistory = [u \in {} |-> <<>>]
    /\ apiKeys = [k \in {} |-> ""]
    /\ saved = [u \in UserIds |-> 0]
    /\ LimiterInit
    /\ last \in UNION { {[op |-> "call", run |-> 1, fn |-> c[1], arg |-> c[2],
                          env |-> e, prev |-> NoRet] :
                            e \in EnvsUpTo(PointsOf(c[1]), MaxFaults)} :
                        c \in SearchCalls }

\* the pending call of fn returns ret
Returns(fn, ret) ==
    /\ last.op = "call"
    /\ last.fn = fn
    /\ last' = [op |-> "return", run |-> last.run, fn |-> fn, arg |-> last.arg,
                env |-> last.env, prev |-> last.prev, ret |-> ret]
    /\ UNCHANGED <<searchHistory, apiKeys, saved, limiterVars>>

ServerSearchSocialMediaRun ==
    last.op = "call" /\ last.fn = "server searchSocialMedia"
        /\ Returns("server searchSocialMedia", searchSocialMedia(last.arg, last.env))

SocialMediaScanRun ==
    last.op = "call" /\ last.fn = "socialMediaScan"
        /\ Returns("socialMediaScan", socialMediaScan(last.arg, last.env))

CheckSocialMediaRun ==
    last.op = "call" /\ last.fn = "checkSocialMedia"
        /\ Returns("checkSocialMedia", checkSocialMedia(last.arg, last.env))

SearchEmailRun ==
    last.op = "call" /\ last.fn = "searchEmail"
        /\ Returns("searchEmail", searchEmail(last.arg, last.env))

ServerSearchEmailRun ==
    last.op = "call" /\ last.fn = "server searchEmail"
        /\ Returns("server searchEmail", serverSearchEmail(last.arg, last.env))

SearchDomainRun ==
    last.op = "call" /\ last.fn = "searchDomain"
        /\ Returns("searchDomain", searchDomain(last.arg, last.env))

ServerSearchDomainRun ==
    last.op = "call" /\ last.fn = "server searchDomain"
        /\ Returns("server searchDomain", serverSearchDomain(last.arg, last.env))

GetDNSRecordsRun ==
    last.op = "call" /\ last.fn = "getDNSRecords"
        /\ Returns("getDNSRecords", getDNSRecords(last.arg, last.env))

PagesSearchSocialMediaRun ==
    last.op = "call" /\ last.fn = "pages searchSocialMedia"
        /\ Returns("pages searchSocialMedia", pagesSearchSocialMedia(last.arg, last.env))

ApiSearchEmailRun ==
    last.op = "call" /\ last.fn = "api searchEmail"
        /\ Returns("api searchEmail", apiSearchEmail(last.arg))

\* the same function is called once more with the same argument
CallAgain ==
    /\ last.op = "return"
    /\ last.run = 1
    /\ \E e \in EnvsUpTo(PointsOf(last.fn), MaxFaults) :
         last' = [op |-> "call", run |-> 2, fn |-> last.fn, arg |-> last.arg,
                  env |-> e, prev |-> last.ret]
    /\ UNCHANGED <<searchHistory, apiKeys, saved, limiterVars>>

NextDispatch ==
    \/ ServerSearchSocialMediaRun
    \/ SocialMediaScanRun
    \/ CheckSocialMediaRun
    \/ SearchEmailRun
    \/ ServerSearchEmailRun
    \/ SearchDomainRun
    \/ ServerSearchDomainRun
    \/ GetDNSRecordsRun
    \/ PagesSearchSocialMediaRun
    \/ ApiSearchEmailRun
    \/ CallAgain

SpecDispatch == InitDispatch /\ [][NextDispatch]_vars

----------------------------------------------------------------------------
(* One HTTP probe, request by request, against a server that answers each
   URL in a fixed way *)

MaxRequests == 3

\* the https URLs of the server; a Location header may also be absent (""),
\* a relative reference, a plain-http URL or a URL written without protocol
Urls == {"u1", "u2"}
Locations == Urls \cup {"", "/relative", "http://u2", "u2/home"}

\* the protocol and the host validator.isURL and https.get find in a URL
ProtocolOf(url) ==
    CASE url \in Urls -> "https"
      [] url = "http://u2" -> "http"
      [] OTHER -> ""

HostOf(url) ==
    CASE url \in Urls -> url
      [] url \in {"http://u2", "u2/home"} -> "u2"
      [] OTHER -> ""

\* validator.isURL without the protocol list: any protocol passes
isURLAnyProtocol(url, protocols) == HostOf(url) # ""

\* validator.isURL(url, { protocols }): require_valid_protocol is on and
\* require_protocol is off by default, so that a protocol must be in the
\* list but may be missing; the host must be there
isURL(url, protocols) ==
    /\ ProtocolOf(url) # "" => ProtocolOf(url) \in protocols
    /\ HostOf(url) # ""
StatusCodes == {200, 301, 302, 303, 404, 500}

\* what one https.get ends in: a response, the 'error' event, the 'timeout'
\* event
HttpResponse(code, location, body) ==
    [kind |-> "response", code |-> code, location |-> location, body |-> body]

Responses ==
    {HttpResponse(200, "", b) : b \in {"json", "text"}}
      \cup {HttpResponse(c, l, "") : c \in {301, 302, 303}, l \in Locations}
      \cup {HttpResponse(c, "", "") : c \in {404, 500}}
      \cup {[kind |-> "error"], [kind |-> "timeout"]}

ProbeFns ==
    {"makeRequest", "api makeRequest", "makeHTTPRequest", "checkURLExists",
     "checkProfileExists", "checkURL", "checkAPI"}

InitRequest ==
    /\ searchHistory = [u \in {} |-> <<>>]
    /\ apiKeys = [k \in {} |-> ""]
    /\ saved = [u \in UserIds |-> 0]
    /\ LimiterInit
    /\ last \in {[op |-> "pending", fn |-> f, server |-> s, first |-> "u1",
                  url |-> "u1", sent |-> 0, parity |-> 0, opened |-> {}] :
                    f \in ProbeFns, s \in [Urls -> Responses]}

Pending(fn) == last.op = "pending" /\ last.fn = fn

\* the number of requests issued so far, counted up to MaxRequests, and its
\* parity, which keeps every further request a visible step
Sent == IF last.sent < MaxRequests THEN last.sent + 1 ELSE last.sent

Parity == 1 - last.parity

\* the URLs a connection has been opened for
Opened == last.opened \cup {last.url}

\* the promise of the probe is settled with value, after the request to
\* last.url when sends is TRUE
Settle(value, sends) ==
    /\ last' = [op |-> "resolved", fn |-> last.fn, server |-> last.server,
                first |-> last.first, url |-> last.url,
                sent |-> IF sends THEN Sent ELSE last.sent,
                parity |-> IF sends THEN Parity ELSE last.parity,
                opened |-> IF sends THEN Opened ELSE last.opened,
                value |-> value]
    /\ UNCHANGED <<searchHistory, apiKeys, saved, limiterVars>>

\* https.get throws on a URL it cannot parse or whose protocol is not
\* https: the promise whose executor called it is rejected. For a redirect
\* target that is the promise of the inner makeRequest, whose then(resolve)
\* has no rejection handler: the promise of the probe is never settled
HttpsGetThrows ==
    /\ last' = [op |-> IF last.url = last.first THEN "rejected" ELSE "unsettled",
                fn |-> last.fn, server |-> last.server, first |-> last.first,
                url |-> last.url, sent |-> last.sent, parity |-> last.parity,
                opened |-> last.opened]
    /\ UNCHANGED <<searchHistory, apiKeys, saved, limiterVars>>

\* server.js / part_001 / part_002 makeRequest: a redirect with a Location
\* header is followed by a new makeRequest, whose isURL check comes first
MakeRequestSend ==
    /\ Pending("makeRequest")
    /\ IF ~isURL(last.url, {"https"}) THEN Settle("error", FALSE)
       ELSE IF ProtocolOf(last.url) # "https" THEN HttpsGetThrows
       ELSE LET res == last.server[last.url]
            IN IF res.kind # "response" THEN Settle("error", TRUE)
               ELSE IF res.code >= 300 /\ res.code < 400 /\ res.location # ""
               THEN /\ last' = [last EXCEPT !.url = res.location, !.sent = Sent,
                                          !.parity = Parity, !.opened = Opened]
                    /\ UNCHANGED <<searchHistory, apiKeys, saved, limiterVars>>
               ELSE IF res.code # 200 THEN Settle("error", TRUE)
               ELSE Settle(IF res.body = "json" THEN "json" ELSE "html", TRUE)

\* api/index.js makeRequest: the isURL check, then one request, the body
\* parsed whatever the status
ApiMakeRequestSend ==
    /\ Pending("api makeRequest")
    /\ IF ~isURL(last.url, {"https"}) THEN Settle("error", FALSE)
       ELSE IF ProtocolOf(last.url) # "https" THEN HttpsGetThrows
       ELSE LET res == last.server[last.url]
            IN IF res.kind # "response" THEN Settle("error", TRUE)
               ELSE Settle(IF res.body = "json" THEN "json" ELSE "html", TRUE)

\* osint-modules.js OSINTEngine.makeHTTPRequest
MakeHTTPRequestSend ==
    /\ Pending("makeHTTPRequest")
    /\ LET res == last.server[last.url]
       IN IF res.kind # "response" \/ res.code # 200 THEN Settle("reject", TRUE)
          ELSE Settle(IF res.body = "json" THEN "json" ELSE "text", TRUE)

\* server.js / part_001 / part_002 checkURLExists
CheckURLExistsSend ==
    /\ Pending("checkURLExists")
    /\ LET res == last.server[last.url]
       IN IF res.kind # "response" THEN Settle("false", TRUE)
          ELSE Settle(IF res.code = 200 \/ res.code = 302 THEN "true" ELSE "false",
                      TRUE)

\* osint-modules.js OSINTEngine.checkProfileExists
CheckProfileExistsSend ==
    /\ Pending("checkProfileExists")
    /\ LET res == last.server[last.url]
       IN IF res.kind # "response" THEN Settle("false", TRUE)
          ELSE Settle(IF res.code = 200 THEN "true" ELSE "false", TRUE)

\* osint-sources.js OSINTSources.checkURL: the status of the record
CheckURLSend ==
    /\ Pending("checkURL")
    /\ LET res == last.server[last.url]
       IN IF res.kind # "response" THEN Settle("error", TRUE)
          ELSE Settle(IF res.code = 200 \/ res.code = 302 THEN "success" ELSE "error",
                      TRUE)

\* osint-sources.js OSINTSources.checkAPI: the status of the record
CheckAPISend ==
    /\ Pending("checkAPI")
    /\ LET res == last.server[last.url]
       IN IF res.kind # "response" THEN Settle("error", TRUE)
          ELSE Settle(IF res.code = 200 THEN "success" ELSE "error", TRUE)

NextRequest ==
    \/ MakeRequestSend
    \/ ApiMakeRequestSend
    \/ MakeHTTPRequestSend
    \/ CheckURLExistsSend
    \/ CheckProfileExistsSend
    \/ CheckURLSend
    \/ CheckAPISend

SpecRequest == InitRequest /\ [][NextRequest]_vars

\* every request that can be sent is sent in the end
SpecRequestFair == SpecRequest /\ WF_vars(NextRequest)

----------------------------------------------------------------------------
(* server.js GET /search?q=johndoe from its first await on: the handler has *)
(* validated the query and waits in searchGitHub for makeRequest, request  *)
(* by request; when makeRequest has resolved, the search goes on and the   *)
(* page is sent                                                            *)

InitServe == InitRequest /\ last.fn = "makeRequest"

\* the exchange that makes makeRequest resolve to value
ExchangeOf(value) ==
    CASE value = "json" -> "200json"
      [] value = "html" -> "200html"
      [] OTHER -> "error"

\* the rest of searchSocialMedia and of the handler, after the await of
\* makeRequest has returned
ServerSearchRespond ==
    /\ last.op = "resolved" /\ last.fn = "makeRequest"
    /\ \E e \in HandlerEnvs(searchSocialMediaPoints) :
         LET env == [e EXCEPT !["api:GitHub"] = ExchangeOf(last.value)]
             ret == searchSocialMedia(S_johndoe, env)
         IN last' = Response("GET /search", Str(S_johndoe), TypeAbsent, "", "",
                             200, TypeAbsent, ret, FALSE)
    /\ UNCHANGED <<searchHistory, apiKeys, saved, limiterVars>>

NextServe ==
    \/ MakeRequestSend
    \/ ServerSearchRespond

\* the requests and the handler keep running
SpecServeFair == InitServe /\ [][NextServe]_vars /\ WF_vars(NextServe)

----------------------------------------------------------------------------
(* security.js SecurityManager: rate limiting and blocking *)

MaxTicks == 2

\* checkRateLimit: windowMs and limits
windowMs == 60000
limits == [general |-> 30, search |-> 10, api |-> 100]

Ips == {"ip1"}
\* request paths, as their segments: /, /search, /api, /api/search
Paths == {<<>>, <<"search">>, <<"api">>, <<"api", "search">>}
\* user agents, by the word the blockedUserAgents patterns look for
UserAgents == {"Mozilla", "curl"}
blockedUserAgents ==
    {"bot", "crawler", "spider", "scraper", "curl", "wget", "python-requests",
     "nikto", "sqlmap", "nmap", "masscan"}

StoreOf(store, key) == IF key \in DOMAIN store THEN store[key] ELSE <<>>

SetKey(store, key, value) ==
    [k \in DOMAIN store \cup {key} |-> IF k = key THEN value ELSE store[k]]

Recent(times, t) == SelectSeq(times, LAMBDA time : t - time < windowMs)

\* checkRateLimit with > in place of >=
checkRateLimitOffByOne(ip, endpoint) ==
    LET key == <<ip, endpoint>>
        maxRequests == IF endpoint \in DOMAIN limits THEN limits[endpoint]
                       ELSE limits.general
        store == SetKey(rateLimitStore, key, StoreOf(rateLimitStore, key))
        recentRequests == Recent(store[key], now)
    IN IF Len(recentRequests) > maxRequests
       THEN [ok |-> FALSE, store |-> store, blacklist |-> ipBlacklist \cup {ip}]
       ELSE [ok |-> TRUE, store |-> SetKey(store, key, Append(recentRequests, now)),
             blacklist |-> ipBlacklist]

\* SecurityManager.checkRateLimit: its return value, the store and the
\* blacklist it leaves
checkRateLimit(ip, endpoint) ==
    LET key == <<ip, endpoint>>
        maxRequests == IF endpoint \in DOMAIN limits THEN limits[endpoint]
                       ELSE limits.general
        store == SetKey(rateLimitStore, key, StoreOf(rateLimitStore, key))
        recentRequests == Recent(store[key], now)
    IN IF Len(recentRequests) >= maxRequests
       THEN [ok |-> FALSE, store |-> store, blacklist |-> ipBlacklist \cup {ip}]
       ELSE [ok |-> TRUE, store |-> SetKey(store, key, Append(recentRequests, now)),
             blacklist |-> ipBlacklist]

\* SecurityManager.isBlocked
isBlocked(ip, userAgent) == ip \in ipBlacklist \/ userAgent \in blockedUserAgents

\* SecurityManager.middleware: the route class of a path
EndpointOf(path) ==
    IF Len(path) >= 2 /\ path[1] = "api" THEN "api"
    ELSE IF Len(path) >= 1 /\ path[1] = "search" THEN "search"
    ELSE "general"

\* the answer of the middleware; inWindow is the number of requests of the
\* same client and route class let through during the window that ends now
Answer(ip, userAgent, path, status) ==
    [op |-> "request", ip |-> ip, userAgent |-> userAgent, path |-> path,
     status |-> status,
     inWindow |-> Len(StoreOf(accepted, <<ip, EndpointOf(path)>>)),
     quiet |-> \A k \in DOMAIN accepted : k[1] = ip => accepted[k] = <<>>]

\* SecurityManager.middleware; status 200 stands for next()
Middleware(ip, userAgent, path) ==
    IF isBlocked(ip, userAgent)
    THEN /\ last' = Answer(ip, userAgent, path, 403)
         /\ UNCHANGED <<rateLimitStore, ipBlacklist, now, accepted>>
    ELSE LET endpoint == EndpointOf(path)
             r == checkRateLimit(ip, endpoint)
         IN /\ rateLimitStore' = r.store
            /\ ipBlacklist' = r.blacklist
            /\ last' = Answer(ip, userAgent, path, IF r.ok THEN 200 ELSE 429)
            /\ accepted' = IF r.ok
                           THEN SetKey(accepted, <<ip, endpoint>>,
                                       Append(StoreOf(accepted, <<ip, endpoint>>), now))
                           ELSE accepted
            /\ UNCHANGED now

\* time passes; the requests that left the window are forgotten
Tick ==
    /\ now < MaxTicks * (windowMs \div 2)
    /\ now' = now + windowMs \div 2
    /\ accepted' = [k \in DOMAIN accepted |-> Recent(accepted[k], now')]
    /\ UNCHANGED <<rateLimitStore, ipBlacklist, last>>

InitRateLimit ==
    /\ searchHistory = [u \in {} |-> <<>>]
    /\ apiKeys = [k \in {} |-> ""]
    /\ saved = [u \in UserIds |-> 0]
    /\ last = [op |-> "start"]
    /\ LimiterInit

\* a client uses one route class at a time: it turns to another class when
\* no request of its own is left in the window, or when it is blocked
OneClassAtATime(ip, path) ==
    \/ ip \in ipBlacklist
    \/ \A k \in DOMAIN accepted :
           (k[1] = ip /\ k[2] # EndpointOf(path)) => accepted[k] = <<>>

NextRateLimit ==
    \/ \E ip \in Ips, path \in Paths :
         /\ OneClassAtATime(ip, path)
         /\ Middleware(ip, "Mozilla", path)
         /\ UNCHANGED <<searchHistory, apiKeys, saved>>
    \/ \E ip \in Ips, userAgent \in UserAgents \cap blockedUserAgents :
         /\ Middleware(ip, userAgent, <<>>)
         /\ UNCHANGED <<searchHistory, apiKeys, saved>>
    \/ Tick /\ UNCHANGED <<searchHistory, apiKeys, saved>>

SpecRateLimit == InitRateLimit /\ [][NextRateLimit]_vars

----------------------------------------------------------------------------
(* middleware/errorHandler.js *)

\* the errors handed to errorHandler: status 0 stands for an error without
\* a status property, and the messages for whatever the exception says
ErrStatuses == {0, 400, 404, 429, 500, 503}
ErrNames == {"Error", "TypeError", "ValidationError"}
ErrMessages == {"m1", "m2"}
Errors == [status : ErrStatuses, name : ErrNames, message : ErrMessages]

\* process.env.NODE_ENV; "" when it is not set
NodeEnvs == {"development", "production", ""}

\* a JSON error body {error, message}; a handler without one of the two
\* fields leaves it ""
Body(status, error, message) ==
    [status |-> status, error |-> error, message |-> message]

\* errorHandler(err, req, res, next): the response it sends
errorHandler(err, nodeEnv) ==
    IF err.status = 429
    THEN Body(429, "Rate limit exceeded", "Too many requests, please try again later")
    ELSE IF err.name = "ValidationError"
    THEN Body(400, "Validation failed", err.message)
    ELSE Body(IF err.status # 0 THEN err.status ELSE 500,
              "Internal server error",
              IF nodeEnv = "development" THEN err.message
              ELSE "Something went wrong")

\* a response of the servers below: the request, the body, the message of
\* the exception that was caught ("" when none was)
Handled(op, request, nodeEnv, body, thrown, data) ==
    [op |-> op, request |-> request, nodeEnv |-> nodeEnv, status |-> body.status,
     error |-> body.error, message |-> body.message, thrown |-> thrown,
     data |-> data]

\* a request waiting for its handler
Request(route, request, nodeEnv) ==
    [op |-> "request", route |-> route, request |-> request, nodeEnv |-> nodeEnv]

Waiting(route) == last.op = "request" /\ last.route = route

ErrorHandlerCall ==
    /\ Waiting("errorHandler")
    /\ last' = Handled("errorHandler", last.request, last.nodeEnv,
                       errorHandler(last.request, last.nodeEnv),
                       last.request.message, <<>>)
    /\ UNCHANGED <<searchHistory, apiKeys, saved, limiterVars>>

----------------------------------------------------------------------------
(* The scan API of part_004 *)

MaxTargets == 11

\* a JSON array; typeof is "object", Array.isArray is true
Arr(items) == [t |-> "array", s |-> <<>>, items |-> items]

\* part_004 isValidDomain:
\* /^[a-zA-Z0-9][a-zA-Z0-9-]{1,61}[a-zA-Z0-9]\.[a-zA-Z]{2,}$/
isValidDomain(domain) ==
    LET parts == Split(domain, ".")
    IN /\ Len(parts) = 2
       /\ Len(parts[1]) >= 3 /\ Len(parts[1]) <= 63
       /\ parts[1][1] \in Alnum /\ parts[1][Len(parts[1])] \in Alnum
       /\ All(parts[1], Alnum \cup {"-"})
       /\ Len(parts[2]) >= 2 /\ All(parts[2], Lower \cup Upper)

\* part_004 isValidIP: four parts, each
\* 25[0-5] | 2[0-4][0-9] | [01]?[0-9][0-9]?
isValidIP(ip) ==
    LET parts == Split(ip, ".")
        octet(x) ==
            /\ Len(x) \in 1..3 /\ All(x, Digit)
            /\ Len(x) = 3 =>
                 \/ x[1] \in {"0", "1"}
                 \/ x[1] = "2" /\ x[2] \in {"0", "1", "2", "3", "4"}
                 \/ x[1] = "2" /\ x[2] = "5" /\ x[3] \in {"0", "1", "2", "3", "4", "5"}
    IN Len(parts) = 4 /\ \A i \in 1..4 : octet(parts[i])

\* part_004 isValidPhone: 10 to 15 digits once every other character is gone
isValidPhone(phone) ==
    LET cleaned == SelectSeq(phone, LAMBDA c : c \in Digit)
    IN Len(cleaned) >= 10 /\ Len(cleaned) <= 15

\* the message of the TypeError a method call on a value that is no string
\* ends in
NotAFunction(method) == "target." \o method \o " is not a function"

\* part_004 app.post('/api/scan/comprehensive'): the sections of the report
\* in the order they are computed, or the exception the try block ends in.
\* The scans themselves (emailAnalysis, socialMediaScan, getDNSRecords,
\* subdomainEnum, portScan, phoneAnalysis) catch what their probes run into
comprehensiveScan(target, type) ==
    LET social == type \in {"auto", "social"}
        network == type \in {"auto", "network"}
        phone == type \in {"auto", "phone"}
        str == target.t = "string"
    IN IF social /\ ~str THEN [thrown |-> NotAFunction("includes"), sections |-> <<>>]
       ELSE IF phone /\ ~str THEN [thrown |-> NotAFunction("replace"), sections |-> <<>>]
       ELSE [thrown |-> "",
             sections |->
                (IF social
                 THEN IF Has(target.s, "@") THEN <<"email", "social">> ELSE <<"social">>
                 ELSE <<>>)
                \o (IF network /\ (isValidDomain(target.s) \/ isValidIP(target.s))
                    THEN <<"network">> ELSE <<>>)
                \o (IF phone /\ isValidPhone(target.s) THEN <<"phone">> ELSE <<>>)]

ScanComprehensive ==
    /\ Waiting("POST /api/scan/comprehensive")
    /\ LET op == "POST /api/scan/comprehensive"
           target == last.request.target
           type == last.request.type
           ret == comprehensiveScan(target, IF type.given THEN type.v ELSE "auto")
       IN last' =
            IF ~Truthy(target)
            THEN Handled(op, last.request, last.nodeEnv,
                         Body(400, "Target is required", ""), "", <<>>)
            ELSE IF ret.thrown # ""
            THEN Handled(op, last.request, last.nodeEnv,
                         Body(500, "Internal server error", ret.thrown),
                         ret.thrown, <<>>)
            ELSE Handled(op, last.request, last.nodeEnv, Body(200, "", ""), "",
                         ret.sections)
    /\ UNCHANGED <<searchHistory, apiKeys, saved, limiterVars>>

\* part_004 app.post('/api/scan/batch'): the two guards on targets, without
\* the second one
acceptsTargetsNoLimit(targets) ==
    IF ~(targets.t = "array" \/ Truthy(targets))
         \/ targets.t # "array" \/ Len(targets.items) = 0
    THEN "Targets array is required"
    ELSE ""

\* part_004 app.post('/api/scan/batch'): the two guards on targets; the
\* error of the 400 response, "" when the batch is accepted
acceptsTargets(targets) ==
    IF ~(targets.t = "array" \/ Truthy(targets))
         \/ targets.t # "array" \/ Len(targets.items) = 0
    THEN "Targets array is required"
    ELSE IF Len(targets.items) > 10
    THEN "Maximum 10 targets per batch"
    ELSE ""

\* the body of the for loop: the entry pushed for one target. emailAnalysis
\* calls email.split and phoneAnalysis phone.replace, which a value that is
\* no string does not have; socialMediaScan builds its URLs from any value
scanTarget(target, type) ==
    LET threw == type \in {"email", "phone"} /\ target.t # "string"
    IN [target |-> target, success |-> ~threw,
        data |-> CASE threw -> ""
                   [] type \in {"social", "email", "phone"} -> type
                   [] OTHER -> "Unsupported scan type",
        error |-> CASE ~threw -> ""
                    [] type = "email" -> "email.split is not a function"
                    [] OTHER -> "phone.replace is not a function"]

\* the for loop left at the first target that fails
scanTargetsUntilFailure(items, type) ==
    LET all == [i \in 1..Len(items) |-> scanTarget(items[i], type)]
        failed == {i \in 1..Len(items) : ~all[i].success}
    IN IF failed = {} THEN all
       ELSE SubSeq(all, 1, CHOOSE i \in failed : \A j \in failed : i <= j)

\* the for loop over targets
scanTargets(items, type) ==
    [i \in 1..Len(items) |-> scanTarget(items[i], type)]

\* the request bodies of the batch scan: targets missing, no array, or an
\* array of up to MaxTargets strings and other values
BatchTargets ==
    {Undefined, Str(S_johndoe), Num}
      \cup {Arr(items) : items \in UNION {[1..n -> {Str(S_johndoe), Num}] :
                                            n \in 0..MaxTargets}}

ScanBatch ==
    /\ Waiting("POST /api/scan/batch")
    /\ LET op == "POST /api/scan/batch"
           targets == last.request.targets
           type == last.request.type
           refusal == acceptsTargets(targets)
           results == scanTargets(targets.items,
                                  IF type.given THEN type.v ELSE "social")
       IN last' =
            IF refusal # ""
            THEN Handled(op, last.request, last.nodeEnv, Body(400, refusal, ""), "",
                         [results |-> <<>>,
                          summary |-> [total |-> 0, successful |-> 0, failed |-> 0]])
            ELSE Handled(op, last.request, last.nodeEnv, Body(200, "", ""), "",
                         [results |-> results,
                          summary |->
                            [total |-> Len(targets.items),
                             successful |->
                               Len(SelectSeq(results, LAMBDA r : r.success)),
                             failed |->
                               Len(SelectSeq(results, LAMBDA r : ~r.success))]])
    /\ UNCHANGED <<searchHistory, apiKeys, saved, limiterVars>>

\* the requests of the model
ScanRequests ==
    {Request("errorHandler", err, nodeEnv) : err \in Errors, nodeEnv \in NodeEnvs}
      \cup {Request("POST /api/scan/comprehensive",
                    [target |-> target, type |-> type], nodeEnv) :
              target \in {Str(S_john_example), Str(S_johndoe), Str(S_example_com),
                          Str(S_phone), Str(<<>>), Num, Undefined},
              type \in {TypeAbsent, TypeOf("social"), TypeOf("network"),
                        TypeOf("phone"), TypeOf("foo")},
              nodeEnv \in NodeEnvs}
      \cup {Request("POST /api/scan/batch", [targets |-> targets, type |-> type],
                    "production") :
              targets \in BatchTargets,
              type \in {TypeAbsent, TypeOf("email"), TypeOf("phone"), TypeOf("foo")}}

InitScan ==
    /\ searchHistory = [u \in {} |-> <<>>]
    /\ apiKeys = [k \in {} |-> ""]
    /\ saved = [u \in UserIds |-> 0]
    /\ last \in ScanRequests
    /\ LimiterInit

NextScan ==
    \/ ErrorHandlerCall
    \/ ScanComprehensive
    \/ ScanBatch

SpecScan == InitScan /\ [][NextScan]_vars

----------------------------------------------------------------------------
(* part_005 KYCService *)

\* buscarTJSP: the crawler is given one URL and handles at most
\* maxRequestsPerCrawl requests, each of which adds at most one process
maxRequestsPerCrawl == 10

\* KYCService.verificarPEP and verificarSancoes: no list is consulted
verificarPEP(nome) == FALSE
verificarSancoes(nome) == FALSE

\* KYCService.verificar: the result after each of its steps. ativa is
\* whether the CNPJ is ATIVA, processos the number of processes found,
\* breaches the number of breaches investigar reports
verificar(tipo, ativa, nome, processos, breaches) ==
    LET r0 == [status |-> "APPROVED", score |-> 100, riskLevel |-> "LOW"]
        r1 == IF tipo = "PJ" /\ ~ativa THEN [r0 EXCEPT !.score = @ - 50] ELSE r0
        r2 == IF verificarPEP(nome)
              THEN [r1 EXCEPT !.score = @ - 20, !.riskLevel = "HIGH"] ELSE r1
        r3 == IF verificarSancoes(nome)
              THEN [r2 EXCEPT !.score = @ - 100, !.status = "REJECTED",
                              !.riskLevel = "HIGH"]
              ELSE r2
        r4 == IF processos > 10
              THEN [r3 EXCEPT !.score = @ - 30, !.riskLevel = "MEDIUM"] ELSE r3
        r5 == IF breaches > 0 THEN [r4 EXCEPT !.score = @ - 15] ELSE r4
        r6 == [r5 EXCEPT !.status = IF r5.score < 50 THEN "REJECTED"
                                    ELSE IF r5.score < 70 THEN "REVIEW" ELSE @]
    IN <<r0, r1, r2, r3, r4, r5, r6>>

\* the calls of verificar: investigar is called with a name and no e-mail
\* address, and looks for breaches of e-mail addresses only
InitKyc ==
    /\ searchHistory = [u \in {} |-> <<>>]
    /\ apiKeys = [k \in {} |-> ""]
    /\ saved = [u \in UserIds |-> 0]
    /\ LimiterInit
    /\ last \in {Request("verificar",
                         [tipo |-> tipo, ativa |-> ativa, nome |-> nome,
                          processos |-> processos, breaches |-> 0], "") :
                   tipo \in {"PF", "PJ"}, ativa \in BOOLEAN, nome \in {"n1", "n2"},
                   processos \in 0..maxRequestsPerCrawl}

VerificarCall ==
    /\ Waiting("verificar")
    /\ LET p == last.request
       IN last' = [op |-> "verificar", request |-> p,
                   steps |-> verificar(p.tipo, p.ativa, p.nome, p.processos,
                                       p.breaches)]
    /\ UNCHANGED <<searchHistory, apiKeys, saved, limiterVars>>

SpecKyc == InitKyc /\ [][VerificarCall]_vars

----------------------------------------------------------------------------
(* Claims *)

\* C1: after any sequence of saved searches, every user's search-history
\* list has at most 50 entries.
C1_HistoryWithinCap ==
    \A u \in DOMAIN searchHistory : Len(searchHistory[u]) <= HISTORY_CAP

\* a user has saved more than 50 searches and holds exactly 50 entries
C1_Witness ==
    \E u \in DOMAIN searchHistory :
        saved[u] = HISTORY_CAP + 2 /\ Len(searchHistory[u]) = HISTORY_CAP

Entries(h) == {h[i] : i \in 1..Len(h)}

\* C2: when a user's history holds 50 entries, saving one more search leaves
\* exactly 50: the new entry is present, the entry saved earliest is the one
\* removed, and the other 49 are unchanged and keep their relative order.
C2_EvictsOldestAtCap ==
    [][\A u \in DOMAIN searchHistory :
          (Len(searchHistory[u]) = HISTORY_CAP /\ saved'[u] = saved[u] + 1) =>
              LET old == searchHistory[u]
                  new == searchHistory'[u]
                  earliest == CHOOSE e \in Entries(old) :
                                  \A f \in Entries(old) : e.seq <= f.seq
              IN /\ Len(new) = HISTORY_CAP
                 /\ \E i \in 1..Len(new) : new[i].seq = saved'[u]
                 /\ earliest \notin Entries(new)
                 /\ Entries(new) = (Entries(old) \ {earliest})
                                      \cup {e \in Entries(new) : e.seq = saved'[u]}
                 /\ SelectSeq(new, LAMBDA e : e \in Entries(old))
                        = SelectSeq(old, LAMBDA e : e # earliest)
      ]_vars

\* the 51st search of a user has been saved: it heads the list and the
\* first search is gone
C2_Witness ==
    \E u \in DOMAIN searchHistory :
        /\ saved[u] = HISTORY_CAP + 1
        /\ Len(searchHistory[u]) = HISTORY_CAP
        /\ searchHistory[u][1].seq = HISTORY_CAP + 1
        /\ searchHistory[u][HISTORY_CAP].seq = 2


IsSearchOp(op) ==
    op \in {"POST /search", "POST /api/search", "api/index POST /search",
            "GET /search"}

\* the safe character set of the specification
AllowedChars == Alnum \cup {"@", ".", "_", "-", "+", "(", ")", " "}

\* C3: on every search endpoint a query longer than 100 characters
\* or holding a character outside the allowed set is answered with 400,
\* starts no probe and writes no history entry.
C3_LongOrForbiddenRejected ==
    (/\ IsSearchOp(last.op) /\ last.status # 401
     /\ last.query.t = "string"
     /\ (Len(last.query.s) > MAX_QUERY_LENGTH \/ ~All(last.query.s, AllowedChars)))
    => (last.status = 400 /\ last.probes = <<>> /\ ~last.wrote)

\* what the specification's input constraint accepts
SpecValid(v) ==
    /\ v.t = "string"
    /\ Len(v.s) >= 1 /\ Len(v.s) <= MAX_QUERY_LENGTH
    /\ All(v.s, AllowedChars)

\* C4: the input validator accepts a query exactly when it is a non-empty
\* string of at most 100 characters made only of alphanumerics, @ . _ - + ( )
\* and spaces.
C4_AcceptsExactlyTheSafeStrings ==
    /\ last.op = "validateSearchQuery" => (last.ret.valid <=> SpecValid(last.arg))
    /\ last.op = "validateInput" => (Truthy(last.ret) <=> SpecValid(last.arg))

\* the decision order of the specification
SpecClassify(q) ==
    IF Has(q, "@") /\ isEmail(q) THEN "email"
    ELSE IF PhonePattern(q) THEN "phone"
    ELSE IF isFQDN(q) /\ ~Has(q, " ") THEN "domain"
    ELSE IF BtcPattern(q) \/ EthPattern(q) THEN "crypto"
    ELSE "social"

\* C5: auto-detection classifies a validated query by the first matching
\* rule of: valid email, phone pattern, FQDN without space, Bitcoin or
\* Ethereum address, else social.
C5_DecisionOrder ==
    /\ last.op = "detectQueryType" =>
           last.ret = SpecClassify(sanitizeInput(validateSearchQuery(last.arg).query))
    /\ last.op = "autoDetect" => last.ret = SpecClassify(validateInput(last.arg).s)

AutoDetected ==
    \/ last.op \in {"POST /search", "POST /api/search"}
         /\ last.status # 401 /\ last.type \in {TypeAbsent, TypeOf("auto")}
    \/ last.op = "api/index POST /search" /\ last.type = TypeAbsent

\* C6: with automatic type detection "john@example.com" is handled as email,
\* "example.com" as domain, "+15551234567" as phone,
\* "1A1zP1eP5QGefi2DMPTfTL5SLmv7DivfNa" as crypto and "johndoe" as social.
C6_SamplesReachTheirSearch ==
    AutoDetected =>
        \A s \in { <<S_john_example, "email">>, <<S_example_com, "domain">>,
                   <<S_phone, "phone">>, <<S_btc, "crypto">>,
                   <<S_johndoe, "social">> } :
            last.query = Str(s[1]) =>
                (last.status = 200 /\ last.rtype = TypeOf(s[2]))

\* C7: the type of every successful search response and of every history
\* entry is one of social, email, phone, domain, crypto, whatever type the
\* request carried.
C7_TypeIsAQueryType ==
    /\ (IsSearchOp(last.op) /\ last.status = 200 /\ last.rtype.given)
           => last.rtype.v \in QueryTypes
    /\ \A u \in DOMAIN searchHistory :
           \A i \in 1..Len(searchHistory[u]) : searchHistory[u][i].type \in QueryTypes

\* the DNS lookups a domain search is written to perform, in order
DeclaredLookups(fn) ==
    CASE fn = "searchDomain" -> <<"A", "MX">>
      [] fn = "server searchDomain" -> <<"A", "TXT">> \o ServerSubdomains
      [] fn = "getDNSRecords" -> <<"A", "MX", "TXT", "NS">>
      [] OTHER -> <<>>

FailedLookups(fn, env) == {p \in ToSet(DeclaredLookups(fn)) : env[p] = "fail"}

\* the environment in which every DNS lookup answers and nothing else changes
AllResolve(env) == [p \in DOMAIN env |-> IF p \in DnsPoints THEN "ok" ELSE env[p]]

\* the records a domain search returns when every lookup has been performed
\* and has answered
CompleteResults(fn, arg, env) ==
    CASE fn = "searchDomain" -> searchDomain(arg, AllResolve(env)).results
      [] fn = "server searchDomain" -> serverSearchDomain(arg, AllResolve(env)).results
      [] fn = "getDNSRecords" ->
             [i \in 1..Len(DeclaredLookups(fn)) |-> R(DeclaredLookups(fn)[i], "success")]

\* C8: in a domain search in which a single DNS lookup fails, every declared
\* lookup is still performed and the result list is complete: it lacks at
\* most the failed lookup's own record.
C8_LookupsIndependent ==
    (/\ last.op = "return"
     /\ DeclaredLookups(last.fn) # <<>>
     /\ Cardinality(FailedLookups(last.fn, last.env)) = 1)
    => /\ last.ret.probes = DeclaredLookups(last.fn)
       /\ Len(last.ret.results) >=
              Len(CompleteResults(last.fn, last.arg, last.env)) - 1

\* the platforms a social search is configured with
ConfiguredPlatforms(fn) ==
    CASE fn = "server searchSocialMedia" -> SocialPlatforms
      [] fn = "socialMediaScan" -> ScanPlatforms
      [] fn = "checkSocialMedia" -> SourcesSocial
      [] OTHER -> <<>>

RecordsOf(results, platform) == {i \in 1..Len(results) : results[i].platform = platform}

\* C9: a social search returns exactly one record per configured platform,
\* whatever the outcome of each probe.
C9_OneRecordPerPlatform ==
    (last.op = "return" /\ ConfiguredPlatforms(last.fn) # <<>>)
    => \A i \in 1..Len(ConfiguredPlatforms(last.fn)) :
           Cardinality(RecordsOf(last.ret.results, ConfiguredPlatforms(last.fn)[i])) = 1

PlatformNames(results) == [i \in 1..Len(results) |-> results[i].platform]

\* C10: two runs of a search with the same query return records whose
\* platform names form the same sequence, whatever the probes' outcomes in
\* either run.
C10_SameNamesEveryRun ==
    (last.op = "return" /\ last.run = 2)
    => PlatformNames(last.ret.results) = PlatformNames(last.prev.results)

\* the outcomes of a probe that count as its failure
FailedOutcomes == {"error", "timeout", "404", "fail"}

\* the platform names under which a search function records a probe
ProbeRecordNames(fn, p) ==
    CASE fn \in {"server searchSocialMedia", "socialMediaScan", "checkSocialMedia",
                 "pages searchSocialMedia"} ->
             {IF p = "api:GitHub" THEN "GitHub"
              ELSE IF p = "api:Reddit" THEN "Reddit" ELSE p}
      [] fn = "server searchDomain" /\ p = "A" -> {"DNS A Records"}
      [] fn = "server searchDomain" /\ p = "TXT" -> {"DNS TXT Records"}
      [] fn \in {"searchEmail", "server searchEmail"} /\ p = "MX" ->
             {"Domain MX Records", "Domain Validation"}
      [] OTHER -> {}

\* C11: every failed probe (network error, timeout, DNS failure, a status
\* that does not count as existing) produces a result record whose status is
\* error.
C11_FailedProbeIsError ==
    last.op = "return" =>
        \A i \in 1..Len(last.ret.probes) :
            LET p == last.ret.probes[i]
                names == ProbeRecordNames(last.fn, p)
            IN (names # {} /\ last.env[p] \in FailedOutcomes) =>
                   \E j \in 1..Len(last.ret.results) :
                       /\ last.ret.results[j].platform \in names
                       /\ last.ret.results[j].status = "error"

ExistenceChecks == {"checkURLExists", "checkProfileExists", "checkURL"}

\* C12: a profile existence check reports that the profile exists exactly
\* when the response status code is 200, 301, 302 or 303.
C12_ExistsOnSuccessOrRedirect ==
    (/\ last.op = "resolved"
     /\ last.fn \in ExistenceChecks
     /\ last.server[last.first].kind = "response")
    => (last.value \in {"true", "success"}
          <=> last.server[last.first].code \in {200, 301, 302, 303})

\* C15: every probe makes one outbound attempt: at most one request is ever
\* issued for it.
C15_OneRequestPerProbe ==
    last.op \in {"pending", "resolved"} => last.sent <= 1

\* C16: every HTTP probe resolves to a value, whatever the server answers.
C16_EveryProbeResolves == <>(last.op = "resolved")

EmailSearches == {"searchEmail", "server searchEmail", "api searchEmail"}

HasRecord(results, status, data) ==
    \E j \in 1..Len(results) : results[j].status = status /\ results[j].data = data

\* C13: an email search performs one MX lookup when the address passes the
\* syntax check, recording the exchangers with status success when the
\* lookup resolves and a status-error record when it does not; an address
\* that fails the check triggers no lookup.
C13_OneMxLookupAfterSyntax ==
    (last.op = "return" /\ last.fn \in EmailSearches)
    => IF isEmail(last.arg)
       THEN /\ last.ret.probes = <<"MX">>
            /\ last.env["MX"] = "ok" => HasRecord(last.ret.results, "success", "exchanges")
            /\ last.env["MX"] = "fail" =>
                   \E j \in 1..Len(last.ret.results) :
                       /\ last.ret.results[j].platform \in ProbeRecordNames(last.fn, "MX")
                       /\ last.ret.results[j].status = "error"
       ELSE last.ret.probes = <<>>

DigitsOf(s) == SelectSeq(s, LAMBDA c : c \in Digit)

PrefixCountries(s) ==
    IF StartsWith(DigitsOf(s), <<"5", "5">>) THEN {"Brazil"}
    ELSE IF StartsWith(DigitsOf(s), <<"1">>) THEN {"USA", "USA/Canada"}
    ELSE {"Unknown"}

\* C17: for a phone query that validation accepts, the phone search reports
\* the country of the number's prefix: Brazil for digits beginning with 55,
\* USA for digits beginning with 1, with or without a leading +.
C17_CountryFromPrefix ==
    /\ last.op = "searchPhone" =>
           last.ret.results[1].data \in PrefixCountries(last.arg.s)
    /\ last.op = "phoneAnalysis" => last.ret.country \in PrefixCountries(last.arg.s)

\* C18: in any 60-second window the rate limiter lets through at most the
\* threshold of the route class for one client: at every moment, the
\* requests of one client and route class let through during the window
\* that ends now number at most that class's limit.
C18_AcceptedWithinThreshold ==
    \A k \in DOMAIN accepted : Len(accepted[k]) <= limits[k[2]]

\* the search class of a client is at its threshold with requests of two
\* different moments, and the next request has been refused
C18_Witness ==
    /\ <<"ip1", "search">> \in DOMAIN accepted
    /\ Len(accepted[<<"ip1", "search">>]) = limits.search
    /\ Cardinality(ToSet(accepted[<<"ip1", "search">>])) = 2
    /\ last.op = "request" /\ last.status = 429

\* C19: every request refused on rate-limit grounds, the one that trips the
\* threshold and every later one refused because of it, is answered 429.
C19_RateLimitRefusalIs429 ==
    (/\ last.op = "request"
     /\ last.status # 200
     /\ last.userAgent \notin blockedUserAgents)
    => last.status = 429

\* C20: a request is never refused while its own route class is under its
\* threshold, whatever the client did in the other route classes.
C20_ClassesIndependent ==
    (/\ last.op = "request"
     /\ last.status # 200
     /\ last.userAgent \notin blockedUserAgents)
    => last.inWindow >= limits[EndpointOf(last.path)]


\* the /api/* endpoints of part_001 other than the one that issues the keys,
\* and the key a request of the model carries in X-API-Key: GET /api/history
\* is sent without one
ApiEndpoints == {"POST /api/search", "GET /api/history"}

CarriedKey == IF last.op = "POST /api/search" THEN last.key ELSE ""

\* C22: a request to an /api/* endpoint that carries no key issued by
\* POST /api/generate-key is refused with 401, and is handed no history
C22_ApiNeedsIssuedKey ==
    (last.op \in ApiEndpoints /\ CarriedKey \notin DOMAIN apiKeys)
        => (last.status = 401 /\ last.results = <<>> /\ ~last.wrote)

\* C26: when the history of a user u changes, the step is a POST /search or
\* a POST /api/search answered 200 that carried u's userId, or a key issued
\* to u; every other step leaves u's history as it was
C26_HistoryChangesOnlyByOwnSearch ==
    [][\A u \in UserIds :
          HistoryOf(searchHistory', u) # HistoryOf(searchHistory, u)
            => /\ last'.op \in {"POST /search", "POST /api/search"}
               /\ last'.status = 200
               /\ last'.userId = u
               /\ last'.op = "POST /api/search"
                     => (last'.key \in DOMAIN apiKeys /\ apiKeys[last'.key] = u)]_vars

\* u1 has a history, and a search of u2, a rejected search carrying u1's
\* userId or a search without userId has just been answered
C26_Witness ==
    /\ Len(HistoryOf(searchHistory, "u1")) > 0
    /\ last.op = "POST /search"
    /\ \/ last.userId = "u2" /\ last.status = 200
       \/ last.userId = "u1" /\ last.status = 400
       \/ last.userId = "" /\ last.status = 200


\* a URL the https-only check refuses: its protocol is not https, or it
\* names no host
FailsHttpsCheck(url) == ProtocolOf(url) \notin {"", "https"} \/ HostOf(url) = ""

\* C27: makeRequest opens no connection for a URL that fails the https-only
\* check, a redirect target included: the call to it is resolved with an
\* error value and no request is sent to it
C27_RefusedUrlNeverRequested ==
    last.fn \in {"makeRequest", "api makeRequest"}
      => /\ \A u \in last.opened : ~FailsHttpsCheck(u)
         /\ (last.op # "pending" /\ FailsHttpsCheck(last.url))
               => (last.op = "resolved" /\ last.value = "error")

\* makeRequest has followed a redirect to a plain-http URL and has resolved
C27_Witness ==
    /\ last.fn = "makeRequest" /\ last.op = "resolved"
    /\ last.url = "http://u2" /\ last.opened = {"u1"}


\* C28: a search request that has passed validation is answered in the end,
\* whatever its probes run into
C28_ValidatedSearchAnswered == <>(last.op = "GET /search")


\* C25: a request of a client none of whose requests was counted in the
\* last 60 seconds is accepted, whatever the client was refused for before
C25_RefusalNotPermanent ==
    (/\ last.op = "request"
     /\ last.userAgent \notin blockedUserAgents
     /\ last.quiet)
    => last.status = 200


\* C21: outside development mode a 500 response does not carry the message
\* of the exception it was produced for
C21_NoMessageOutsideDevelopment ==
    (/\ last.op \in {"errorHandler", "POST /api/scan/comprehensive"}
     /\ last.status = 500
     /\ last.nodeEnv # "development")
    => (last.message # last.thrown /\ last.error # last.thrown)

\* C24: errorHandler answers 429 to an error whose status is 429, 400 to an
\* error named ValidationError and 500 to every other error
C24_OneStatusPerError ==
    last.op = "errorHandler"
      => last.status = (IF last.request.status = 429 THEN 429
                        ELSE IF last.request.name = "ValidationError" THEN 400
                        ELSE 500)

C29_OneEntryPerTarget ==
    (last.op = "POST /api/scan/batch" /\ last.status = 200)
      => LET items == last.request.targets.items
             results == last.data.results
             summary == last.data.summary
         IN /\ Len(results) = Len(items)
            /\ \A i \in 1..Len(items) : results[i].target = items[i]
            /\ summary.total = Len(items)
            /\ summary.successful + summary.failed = summary.total

\* an accepted batch in which a target failed and a later one was scanned
C29_Witness ==
    /\ last.op = "POST /api/scan/batch" /\ last.status = 200
    /\ \E i, j \in 1..Len(last.data.results) :
         i < j /\ ~last.data.results[i].success /\ last.data.results[j].success


RiskRank(riskLevel) ==
    CASE riskLevel = "LOW" -> 0 [] riskLevel = "MEDIUM" -> 1 [] riskLevel = "HIGH" -> 2

\* C30: from one step of verificar to the next the risk level does not
\* go down
C30_RiskNeverDecreases ==
    last.op = "verificar"
      => \A i \in 1..(Len(last.steps) - 1) :
           RiskRank(last.steps[i + 1].riskLevel) >= RiskRank(last.steps[i].riskLevel)

\* no step of verificar leaves another risk level than LOW
C30_RiskAlwaysLow ==
    last.op = "verificar"
      => \A i \in 1..Len(last.steps) : last.steps[i].riskLevel = "LOW"

====
